---- MODULE Spec2Model ----
(***************************************************************************)
(* Model of physics229/SampleNFW.ipynb: the rejection sampler nfw(c), the   *)
(* rational least-squares fit find_rational(xi,fxi,A,B) and the evaluation  *)
(* num(x)/den(x) of the fitted pair.                                        *)
(*                                                                         *)
(* Numbers are exact rationals <<p, q>> (q > 0, lowest terms): the source   *)
(* computes in IEEE doubles and the claims are read "in exact arithmetic,   *)
(* within floating-point tolerance in the source".  Two places where the    *)
(* doubles do not follow exact arithmetic are modelled as what numpy does:  *)
(*  - a division by an exact zero yields inf / -inf / nan (a RuntimeWarning,*)
(*    no exception);                                                        *)
(*  - np.linalg.inv raises LinAlgError only when the LU factorisation meets *)
(*    an exactly zero pivot; for an exactly singular matrix the rounded     *)
(*    pivot may or may not be zero, so either LinAlgError is raised or a    *)
(*    matrix of rounding-determined entries is returned.                    *)
(***************************************************************************)
EXTENDS Integers, Sequences, FiniteSets

VARIABLES
    \* ---- find_rational(xi, fxi, A, B) and the evaluation cells ----
    pc,     \* position in the fit: "call", "phi", "solved", "returned", "raised", "evaluated"
    xi,     \* abscissae of the table (sequence of rationals)
    fxi,    \* ordinates of the table (sequence of rationals)
    A,      \* numerator degree argument
    B,      \* denominator degree argument
    phi,    \* design matrix, Ndata rows of Nbase entries
    d,      \* np.dot(fxi, phi)
    M,      \* np.dot(phi.T, phi)
    c,      \* coefficient vector np.dot(inv(M), d)
    num,    \* np.poly1d numerator: coefficients, highest degree first
    den,    \* np.poly1d denominator: coefficients, highest degree first
    err,    \* exception that ended the call: "none", "ValueError", "LinAlgError"
    xq,     \* query point of the evaluation num(x)/den(x)
    val,    \* result of the evaluation
    tnum,   \* function the table was sampled from: numerator, lowest degree first (<<>>: none)
    tden,   \* function the table was sampled from: denominator, lowest degree first
    \* ---- nfw(c) ----
    npc,    \* position in nfw: "idle", "loop", "done"
    cc,     \* the concentration nfw is called with
    x,      \* candidate of the current iteration, uniform * c
    r,      \* second uniform draw of the current iteration
    rad     \* the returned draw x/c

fitvars == <<pc, xi, fxi, A, B, phi, d, M, c, num, den, err, xq, val, tnum, tden>>
nfwvars == <<npc, cc, x, r, rad>>
vars == <<pc, xi, fxi, A, B, phi, d, M, c, num, den, err, xq, val, tnum, tden,
          npc, cc, x, r, rad>>

----------------------------------------------------------------------------
\* Bounds of the model.
MaxN == 3        \* longest generic table
MaxDeg == 1      \* largest degree argument of the fits of generic tables
MaxC == 4        \* largest concentration
Grid == 6        \* uniform draws are k/Grid, k in 0..Grid-1

----------------------------------------------------------------------------
\* Exact rational arithmetic (the doubles of the source, without rounding).

Abs(n) == IF n < 0 THEN -n ELSE n

RECURSIVE GCD(_, _)
GCD(a, b) == IF b = 0 THEN a ELSE GCD(b, a % b)

Norm(p, q) ==
    LET g == GCD(Abs(p), Abs(q))
        s == IF q < 0 THEN -1 ELSE 1
    IN  <<(s * p) \div g, (s * q) \div g>>

Rat(n) == <<n, 1>>
Zero == <<0, 1>>
One == <<1, 1>>

RAdd(a, b) ==
    LET g == GCD(a[2], b[2])
    IN  Norm(a[1] * (b[2] \div g) + b[1] * (a[2] \div g), (a[2] \div g) * b[2])
RNeg(a) == <<-a[1], a[2]>>
RSub(a, b) == RAdd(a, RNeg(b))
RMul(a, b) ==
    LET g1 == GCD(Abs(a[1]), b[2])
        g2 == GCD(Abs(b[1]), a[2])
    IN  IF a[1] = 0 \/ b[1] = 0 THEN Zero
        ELSE <<(a[1] \div g1) * (b[1] \div g2), (a[2] \div g2) * (b[2] \div g1)>>
\* b # 0
RDiv(a, b) == RMul(a, IF b[1] < 0 THEN <<-b[2], -b[1]>> ELSE <<b[2], b[1]>>)
RLess(a, b) == a[1] * b[2] < b[1] * a[2]

\* x ** n for n >= 0; 0 ** 0 is 1 as in Python.
RECURSIVE RPow(_, _)
RPow(a, n) == IF n = 0 THEN One ELSE RMul(a, RPow(a, n - 1))

RECURSIVE RSum(_)
RSum(s) == IF s = <<>> THEN Zero ELSE RAdd(s[1], RSum(Tail(s)))

\* np.dot of two vectors of equal length.
Dot(u, v) == RSum([i \in 1..Len(u) |-> RMul(u[i], v[i])])

----------------------------------------------------------------------------
\* find_rational(xi, fxi, A, B)

Min(a, b) == IF a < b THEN a ELSE b

Ndata == Len(xi)
Nbase == A + B + 1

\* Mutants of PhiEntry: the minus sign of the denominator columns dropped; the
\* comparison a<=A written a<A.
PhiEntryPlus(i, a) ==
    IF a <= A THEN RPow(xi[i], a)
    ELSE RMul(fxi[i], RPow(xi[i], a - A))
PhiEntryOffByOne(i, a) ==
    IF a < A THEN RPow(xi[i], a)
    ELSE RNeg(RMul(fxi[i], RPow(xi[i], a - A)))

\* phi[i,a] = xi[i]**a if a<=A else (-fxi[i]*xi[i]**(a-A)), a counted from 0.
PhiEntry(i, a) ==
    IF a <= A THEN RPow(xi[i], a)
    ELSE RNeg(RMul(fxi[i], RPow(xi[i], a - A)))

\* The double loop over range(Ndata) and range(Nbase).
BuildPhi == [i \in 1..Ndata |-> [k \in 1..Nbase |-> PhiEntry(i, k - 1)]]

\* Mutant of Source: the target fxi[i] * xi[i]**B (denominator normalised to
\* leading coefficient 1) in place of fxi[i].
SourceLeading(f, ph, nb) ==
    [k \in 1..nb |->
        RSum([i \in 1..Len(ph) |->
            RMul(RMul(f[i], IF B > 0 THEN RPow(xi[i], B) ELSE One), ph[i][k])])]

\* The "source" of the normal equations, d = np.dot(fxi, phi).
Source(f, ph, nb) ==
    [k \in 1..nb |-> RSum([i \in 1..Len(ph) |-> RMul(f[i], ph[i][k])])]

\* M = np.dot(phi.T, phi).
Gram(ph, nb) ==
    [a \in 1..nb |-> [b \in 1..nb |->
        RSum([i \in 1..Len(ph) |-> RMul(ph[i][a], ph[i][b])])]]

RAbs(a) == <<Abs(a[1]), a[2]>>

RECURSIVE IsPow2(_)
IsPow2(n) == n = 1 \/ (n > 1 /\ n % 2 = 0 /\ IsPow2(n \div 2))

\* a = +-2^k: the reciprocal of a and every product with it are exact in doubles.
IsPow2Rat(a) == (Abs(a[1]) = 1 /\ IsPow2(a[2])) \/ (a[2] = 1 /\ IsPow2(Abs(a[1])))

\* Gauss-Jordan elimination with partial pivoting (LAPACK's gesv, which
\* np.linalg.inv calls) of the n x 2n tableau W = [M | I] from column k on.
\* E[i][j]: the double at W[i][j] (j <= n) holds the exact value; an entry
\* stops being exact when a rounded multiplier times a non-zero entry of the
\* pivot row is subtracted from it.  A multiplier is exact when it is zero or
\* the pivot is +-2^k.
\* ok: every pivot was non-zero in exact arithmetic (the matrix is invertible).
\* exact (when not ok): the candidates of the zero pivot column are exact
\* zeros, so that LAPACK meets a zero pivot whatever the rounding.
RECURSIVE GaussJordan(_, _, _, _)
GaussJordan(W, E, k, n) ==
    IF k > n THEN [ok |-> TRUE, exact |-> TRUE, w |-> W]
    ELSE LET rows == {i \in k..n : W[i][k] # Zero}
         IN  IF rows = {} THEN [ok |-> FALSE, exact |-> \A i \in k..n : E[i][k], w |-> W]
             ELSE LET big == {i \in rows : \A j \in rows :
                                  ~RLess(RAbs(W[i][k]), RAbs(W[j][k]))}
                      p == CHOOSE i \in big : \A j \in big : i <= j
                      \* a tie between rounded candidates: the doubles may pick another row
                      sure == Cardinality(big) = 1 \/ \A i \in big : E[i][k]
                      piv == W[p][k]
                      prow == [j \in 1..(2 * n) |-> RDiv(W[p][j], piv)]
                      swapped == [W EXCEPT ![p] = W[k], ![k] = prow]
                      Es == [E EXCEPT ![p] = E[k], ![k] = E[p]]
                      lex(i) == Es[i][k] /\ (swapped[i][k] = Zero
                                             \/ (Es[k][k] /\ IsPow2Rat(piv)))
                      W2 == [i \in 1..n |->
                               IF i = k THEN prow
                               ELSE [j \in 1..(2 * n) |->
                                       RSub(swapped[i][j], RMul(swapped[i][k], prow[j]))]]
                      E2 == [i \in 1..n |-> [j \in 1..n |->
                               IF i <= k \/ j <= k THEN Es[i][j]
                               ELSE /\ sure
                                    /\ Es[i][j]
                                    /\ \/ Es[i][k] /\ swapped[i][k] = Zero
                                       \/ Es[k][j] /\ (prow[j] = Zero \/ lex(i))]]
                  IN  GaussJordan(W2, E2, k + 1, n)

\* np.linalg.inv in exact arithmetic:
\* [ok |-> the matrix is invertible,
\*  exact |-> a singular matrix is met as an exactly zero pivot,
\*  inv |-> the inverse].  The inverse of the empty (0,0) matrix is the empty matrix.
Inv(m) ==
    LET n == Len(m)
        W == [i \in 1..n |-> [j \in 1..(2 * n) |->
                IF j <= n THEN m[i][j] ELSE IF j - n = i THEN One ELSE Zero]]
        dyadic == \A i \in 1..n : \A j \in 1..n : IsPow2(m[i][j][2])
        g == GaussJordan(W, [i \in 1..n |-> [j \in 1..n |-> dyadic]], 1, n)
    IN  [ok |-> g.ok, exact |-> g.exact,
         inv |-> [i \in 1..n |-> [j \in 1..n |-> g.w[i][j + n]]]]

\* np.dot(matrix, vector).
MatVec(m, v) == [i \in 1..Len(m) |-> Dot(m[i], v)]

\* s[::-1]
Reverse(s) == [i \in 1..Len(s) |-> s[Len(s) + 1 - i]]

\* s[:k] and s[k:] for k >= 0.
Take(s, k) == SubSeq(s, 1, Min(k, Len(s)))
Drop(s, k) == SubSeq(s, k + 1, Len(s))

\* np.trim_zeros(s, 'f')
RECURSIVE TrimZeros(_)
TrimZeros(s) == IF s # <<>> /\ s[1] = Zero THEN TrimZeros(Tail(s)) ELSE s

\* np.poly1d(coefficients, highest degree first): leading zeros are dropped and
\* the empty polynomial is [0.].
Poly1d(s) == IF TrimZeros(s) = <<>> THEN <<Zero>> ELSE TrimZeros(s)

\* Mutant of MakeNum: the reversal [::-1] forgotten.
MakeNumNoReverse(cv, a) == Poly1d(Take(cv, a + 1))

\* num = np.poly1d(c[:A+1][::-1])
MakeNum(cv, a) == Poly1d(Reverse(Take(cv, a + 1)))

\* Mutant of MakeDen: the 1.0 put in front (highest degree) instead of appended.
MakeDenPrepend(cv, a) == Poly1d(<<One>> \o Reverse(Drop(cv, a + 1)))

\* den = np.poly1d(np.append(c[A+1:][::-1], 1.0))
MakeDen(cv, a) == Poly1d(Append(Reverse(Drop(cv, a + 1)), One))

\* poly1d.order and poly1d[k], the coefficient of x**k.
Order(p) == Len(p) - 1
Coef(p, k) == IF k < 0 \/ k > Order(p) THEN Zero ELSE p[Len(p) - k]

\* poly1d.__call__: np.polyval, Horner's rule.
RECURSIVE Horner(_, _, _)
Horner(p, q, acc) ==
    IF p = <<>> THEN acc ELSE Horner(Tail(p), q, RAdd(RMul(acc, q), p[1]))
PolyVal(p, q) == Horner(p, q, Zero)

\* numpy's array division: a zero divisor yields nan (0/0) or a signed infinity.
Quotient(n, dd) ==
    IF dd # Zero THEN [kind |-> "finite", v |-> RDiv(n, dd)]
    ELSE IF n = Zero THEN [kind |-> "nan", v |-> Zero]
    ELSE IF n[1] > 0 THEN [kind |-> "inf", v |-> Zero]
    ELSE [kind |-> "-inf", v |-> Zero]

NoVal == [kind |-> "none", v |-> Zero]

----------------------------------------------------------------------------
\* The tables and degrees find_rational is called with.

XVals == {0, 1, 2}
YVals == {0, 1, 2}
Degs == -1..MaxDeg

\* Generic tables: up to MaxN points, abscissae in non-decreasing order
\* (repeated abscissae included), arbitrary ordinates.
GenericTables ==
    UNION {{t \in [1..n -> XVals \X YVals] :
              \A i \in 1..(n - 1) : t[i][1] <= t[i + 1][1]} : n \in 0..MaxN}

\* Functions N(x)/D(x) that tables are sampled from, coefficients lowest degree
\* first, and the abscissae they are sampled at (a prefix of SamplePts).
TrueFns == {
    <<<<One, Zero, One>>, <<One>>>>,        \* x^2 + 1
    <<<<Rat(2), One>>, <<One>>>>,           \* 2 + x
    <<<<One>>, <<One, One>>>>,              \* 1 / (1 + x)
    <<<<One>>, <<Rat(2), One>>>>,           \* 1 / (2 + x)
    <<<<Zero, One>>, <<One, Rat(2)>>>> }    \* x / (1 + 2x)
SamplePts == <<0, 1, 2, 3>>
\* Degree arguments of the fits of sampled tables (not below the function's own).
FitDegs == {0, 1, 2}

\* Value of the polynomial with coefficients s (lowest degree first) at q.
TrueVal(s, q) == PolyVal(Reverse(s), q)

\* Evaluation points of the fitted pair.
XQ == {1, 4}

\* Entries np.linalg.inv leaves in c when it inverts a singular matrix without
\* meeting a zero pivot: determined by rounding, any value.
RoundoffVals == {Zero, One}

InitNfwIdle == npc = "idle" /\ cc = 0 /\ x = Zero /\ r = Zero /\ rad = Zero

InitFitCommon ==
    /\ pc = "call"
    /\ phi = <<>> /\ d = <<>> /\ M = <<>> /\ c = <<>>
    /\ num = <<>> /\ den = <<>>
    /\ err = "none" /\ xq = Zero /\ val = NoVal

InitGeneric ==
    /\ \E t \in GenericTables :
          /\ xi = [i \in 1..Len(t) |-> Rat(t[i][1])]
          /\ fxi = [i \in 1..Len(t) |-> Rat(t[i][2])]
    /\ A \in Degs /\ B \in Degs
    /\ tnum = <<>> /\ tden = <<>>

InitSampled ==
    \E f \in TrueFns, n \in 1..Len(SamplePts) :
        /\ tnum = f[1] /\ tden = f[2]
        /\ xi = [i \in 1..n |-> Rat(SamplePts[i])]
        /\ fxi = [i \in 1..n |->
                    RDiv(TrueVal(f[1], Rat(SamplePts[i])), TrueVal(f[2], Rat(SamplePts[i])))]
        /\ A \in {a \in FitDegs : a >= Len(f[1]) - 1}
        /\ B \in {b \in FitDegs : b >= Len(f[2]) - 1}

Init == InitFitCommon /\ (InitGeneric \/ InitSampled) /\ InitNfwIdle

\* Lines 180-185: Ndata, Nbase, np.zeros((Ndata,Nbase)) and the fill loop.
\* np.zeros raises ValueError for a negative dimension.
SetupPhi ==
    /\ pc = "call"
    /\ IF Nbase < 0
       THEN /\ pc' = "raised" /\ err' = "ValueError" /\ phi' = phi
       ELSE /\ pc' = "phi" /\ err' = err /\ phi' = BuildPhi
    /\ UNCHANGED <<xi, fxi, A, B, d, M, c, num, den, xq, val, tnum, tden>>
    /\ UNCHANGED nfwvars

\* Lines 187-189: d, M and c = np.dot(np.linalg.inv(M), d).
SolveNormal ==
    /\ pc = "phi"
    /\ d' = Source(fxi, phi, Nbase)
    /\ M' = Gram(phi, Nbase)
    /\ LET I == Inv(Gram(phi, Nbase))
       IN  \/ /\ I.ok
              /\ c' = MatVec(I.inv, Source(fxi, phi, Nbase))
              /\ pc' = "solved" /\ err' = err
           \/ /\ ~I.ok
              /\ c' = c /\ pc' = "raised" /\ err' = "LinAlgError"
           \/ /\ ~I.ok /\ ~I.exact
              /\ \E g \in RoundoffVals : c' = [k \in 1..Nbase |-> g]
              /\ pc' = "solved" /\ err' = err
    /\ UNCHANGED <<xi, fxi, A, B, phi, num, den, xq, val, tnum, tden>>
    /\ UNCHANGED nfwvars

\* Lines 190-192: the two poly1d objects and the return.
BuildPolys ==
    /\ pc = "solved"
    /\ num' = MakeNum(c, A)
    /\ den' = MakeDen(c, A)
    /\ pc' = "returned"
    /\ UNCHANGED <<xi, fxi, A, B, phi, d, M, c, err, xq, val, tnum, tden>>
    /\ UNCHANGED nfwvars

\* Lines 200, 215, 228: num(x)/den(x) at a query point.
Evaluate ==
    /\ pc \in {"returned", "evaluated"}
    /\ \E q \in XQ :
          /\ xq' = Rat(q)
          /\ val' = Quotient(PolyVal(num, Rat(q)), PolyVal(den, Rat(q)))
    /\ pc' = "evaluated"
    /\ UNCHANGED <<xi, fxi, A, B, phi, d, M, c, num, den, err, tnum, tden>>
    /\ UNCHANGED nfwvars

Next == SetupPhi \/ SolveNormal \/ BuildPolys \/ Evaluate

Spec == Init /\ [][Next]_vars

----------------------------------------------------------------------------
\* nfw(c): rejection sampling.

\* np.random.uniform(size=1): a draw in [0,1), here k/Grid.
Uniform(k) == Norm(k, Grid)

\* x = np.random.uniform(size=1) * c
Candidate(k) == RMul(Uniform(k), Rat(cc))

\* Mutants of Accept: the bound 4x/(1+x)^2 lowered by 1 (never above 0); the
\* comparison < written <=.
AcceptShifted(xv, rv) ==
    \E fourx \in {RMul(Rat(4), xv)}, onepx \in {RAdd(One, xv)} :
        \E sq \in {RMul(onepx, onepx)} :
            \E quot \in {RDiv(fourx, sq)} :
                \E bound \in {RSub(quot, One)} : RLess(rv, bound)
AcceptOrEqual(xv, rv) ==
    \E fourx \in {RMul(Rat(4), xv)}, onepx \in {RAdd(One, xv)} :
        \E sq \in {RMul(onepx, onepx)} :
            \E bound \in {RDiv(fourx, sq)} : ~RLess(bound, rv)

\* The acceptance test r < 4*x/(1+x)**2, one operation after the other.
Accept(xv, rv) ==
    \E fourx \in {RMul(Rat(4), xv)}, onepx \in {RAdd(One, xv)} :
        \E sq \in {RMul(onepx, onepx)} :
            \E bound \in {RDiv(fourx, sq)} : RLess(rv, bound)

\* return(x[0]/c)
Returned(xv) == RDiv(xv, Rat(cc))

InitFitIdle ==
    /\ pc = "idle" /\ xi = <<>> /\ fxi = <<>> /\ A = 0 /\ B = 0
    /\ phi = <<>> /\ d = <<>> /\ M = <<>> /\ c = <<>>
    /\ num = <<>> /\ den = <<>>
    /\ err = "none" /\ xq = Zero /\ val = NoVal
    /\ tnum = <<>> /\ tden = <<>>

InitNfw ==
    /\ InitFitIdle
    /\ npc = "call" /\ cc \in 0..MaxC
    /\ x = Zero /\ r = Zero /\ rad = Zero

\* One pass of the while-True loop with the draws k/Grid and j/Grid.
Iterate(k, j) ==
    /\ npc \in {"call", "loop"}
    /\ \E xv \in {Candidate(k)}, rv \in {Uniform(j)} :
          /\ x' = xv
          /\ r' = rv
          /\ IF Accept(xv, rv)
             THEN npc' = "done" /\ rad' = Returned(xv)
             ELSE npc' = "loop" /\ rad' = rad
    /\ cc' = cc
    /\ UNCHANGED fitvars

NextNfw == \E k \in 0..(Grid - 1), j \in 0..(Grid - 1) : Iterate(k, j)

\* A pass of the loop whose draws pass the test.
AcceptingPass == NextNfw /\ npc' = "done"

\* The random source keeps producing every pair of draws: the loop keeps running,
\* and a pair that passes the test, where there is one, is eventually drawn.
FairDraws == WF_vars(NextNfw) /\ WF_vars(AcceptingPass)

SpecNfw == InitNfw /\ [][NextNfw]_vars /\ FairDraws

----------------------------------------------------------------------------
\* Vocabulary of the properties.

\* find_rational has just returned (num, den); c has just been computed.
\* (The evaluations that follow leave xi, fxi, A, B, M, c, num and den unchanged.)
HasReturned == pc = "returned"
HasSolved == pc = "solved"
Sampled == tnum # <<>>

\* Coefficient of x**k of a polynomial given lowest degree first.
TCoef(s, k) == IF k + 1 <= Len(s) THEN s[k + 1] ELSE Zero

\* The returned pair has the coefficients of the function the table was sampled from.
RecoversTruth ==
    /\ \A k \in 0..A : Coef(num, k) = TCoef(tnum, k)
    /\ \A k \in 0..B : Coef(den, k) = TCoef(tden, k)

C2_Interpolates ==
    (HasReturned /\ A >= 0 /\ B >= 0 /\ Ndata = Nbase /\ Inv(M).ok)
    => \A i \in 1..Ndata :
          /\ PolyVal(den, xi[i]) # Zero
          /\ RDiv(PolyVal(num, xi[i]), PolyVal(den, xi[i])) = fxi[i]

\* C2 as amended: an exactly determined fit satisfies num(x_i) = y_i * den(x_i)
\* at every sample point (hence num/den = y_i wherever den(x_i) # 0).
C2_InterpolatesLinearised ==
    (HasReturned /\ A >= 0 /\ B >= 0 /\ Ndata = Nbase /\ Inv(M).ok)
    => \A i \in 1..Ndata :
          PolyVal(num, xi[i]) = RMul(fxi[i], PolyVal(den, xi[i]))

C2_Witness ==
    /\ pc = "returned" /\ A = 0 /\ B = 1 /\ Ndata = 2 /\ Inv(M).ok
    /\ \E i \in 1..Ndata : PolyVal(den, xi[i]) = Zero
    /\ \E i \in 1..Ndata : fxi[i] # Zero

C4_SingularRaises ==
    (/\ A >= 0 /\ B >= 0
     /\ pc \in {"solved", "returned", "raised"}
     /\ (Ndata < Nbase \/ ~Inv(M).ok))
    => (pc = "raised" /\ err = "LinAlgError")

\* C5: with A < 0 or B < 0 the call is rejected: it never returns a pair.
C5_NegativeDegreesRejected ==
    (A < 0 \/ B < 0) => pc \notin {"returned", "evaluated"}

\* C6: an evaluation at a point where den(x) is exactly zero returns no value.
C6_PoleRaises ==
    (pc = "evaluated" /\ A >= 0 /\ B >= 0 /\ PolyVal(den, xq) = Zero)
    => val.kind \notin {"finite", "nan", "inf", "-inf"}

\* C7: for B = 0 and a table of n >= A+1 points (distinct abscissae) sampled
\* from a polynomial p of degree <= A, find_rational returns the coefficients
\* of p and the denominator [1], and num(x)/den(x) = p(x) at every query; the
\* table (0,1),(1,2),(2,5),(3,10) with A = 2 gives [1, 0, 1] and 17 at x = 4.
C7_PolynomialCase ==
    (/\ Sampled /\ tden = <<One>> /\ B = 0
     /\ Len(tnum) - 1 <= A /\ Ndata >= A + 1)
    => /\ pc # "raised"
       /\ pc \in {"returned", "evaluated"} =>
            /\ \A k \in 0..A : Coef(num, k) = TCoef(tnum, k)
            /\ den = <<One>>
       /\ pc = "evaluated" =>
            val = [kind |-> "finite", v |-> TrueVal(tnum, xq)]
       /\ (/\ pc = "evaluated" /\ tnum = <<One, Zero, One>>
           /\ A = 2 /\ Ndata = 4 /\ xq = Rat(4)) =>
            /\ num = <<One, Zero, One>>
            /\ val = [kind |-> "finite", v |-> Rat(17)]

C7_Witness ==
    /\ pc = "evaluated" /\ tnum = <<One, Zero, One>> /\ tden = <<One>>
    /\ xi = <<Rat(0), Rat(1), Rat(2), Rat(3)>>
    /\ fxi = <<Rat(1), Rat(2), Rat(5), Rat(10)>>
    /\ A = 2 /\ B = 0 /\ xq = Rat(4)
    /\ num = <<One, Zero, One>> /\ den = <<One>>
    /\ val = [kind |-> "finite", v |-> Rat(17)]

\* The design matrix and the normal equations as the claim C8 describes them:
\* column a holds x_i^a for 0 <= a <= A and -y_i * x_i^(a-A) for A < a <= A+B.
DesignEntry(i, a) ==
    IF a <= A THEN RPow(xi[i], a) ELSE RNeg(RMul(fxi[i], RPow(xi[i], a - A)))
\* (phi^T phi) v
NormalLhs(v) ==
    [a \in 1..Nbase |->
        RSum([b \in 1..Nbase |->
            RMul(RSum([i \in 1..Ndata |->
                     RMul(DesignEntry(i, a - 1), DesignEntry(i, b - 1))]), v[b])])]
\* phi^T t
NormalRhs(t) ==
    [a \in 1..Nbase |-> RSum([i \in 1..Ndata |-> RMul(DesignEntry(i, a - 1), t[i])])]

C9_Terminates == <>(npc = "done")

\* C9 as amended: nfw(c) eventually returns for every c > 0.
C9_TerminatesPositive == (cc > 0) ~> (npc = "done")

C9_Witness == npc = "done" /\ cc = MaxC /\ x # Zero

\* The test r < 4x/(1+x)^2 on the state, cleared of fractions.
PassesTest == r[1] * (x[2] + x[1]) * (x[2] + x[1]) < 4 * x[1] * x[2] * r[2]

\* C10: the returned value is x/c for the candidate x in [0, c) of the last
\* pass, whose draws pass the test; the draws of every pass that did not return
\* failed it; the returned value is in [0, 1) and is not 0.
C10_OnlyAccepted ==
    /\ npc = "done" =>
          /\ cc > 0
          /\ ~RLess(x, Zero) /\ RLess(x, Rat(cc))
          /\ RMul(rad, Rat(cc)) = x
          /\ PassesTest
          /\ RLess(Zero, rad) /\ RLess(rad, One)
    /\ npc = "loop" => ~PassesTest

C10_Witness ==
    /\ npc = "done" /\ cc = 2 /\ x = One /\ r = <<5, 6>> /\ rad = <<1, 2>>

====
